---- MODULE Spec2Model ----
(***************************************************************************)
(* dgraph-admin (src/src/main.rs): one process run of the command-line     *)
(* client.  main builds the client from --url and --auth (Dgraph::new),    *)
(* runs the selected subcommand once and exits.                            *)
(*                                                                         *)
(* Text that the program takes apart is a sequence of pieces: a url is a   *)
(* sequence of lexical tokens (words, numbers, punctuation), an auth value *)
(* and a schema are sequences of characters.  Text that is only compared   *)
(* or concatenated is a string.  Option<T> is <<>> (None) or <<v>> (Some). *)
(***************************************************************************)
EXTENDS Integers, Sequences, FiniteSets, TLC

VARIABLES pc, url, auth, subcommand, dgraph, requests, file, resp, stdout, err, exit_code

vars == <<pc, url, auth, subcommand, dgraph, requests, file, resp, stdout, err, exit_code>>

\* ---------------------------------------------------------------- bounds

MaxAuthLen == 3
MaxErrors == 2
MaxSchemaLen == 3
MaxNodes == 2

\* ------------------------------------------------------- general helpers

None == <<>>
Some(v) == <<v>>

Ok(v) == [ok |-> TRUE, v |-> v]
Err(e) == [ok |-> FALSE, e |-> e]

NoError == [kind |-> "none"]

RECURSIVE SeqsUpTo(_, _)
SeqsUpTo(S, n) ==
    IF n = 0 THEN {<<>>}
    ELSE LET shorter == SeqsUpTo(S, n - 1)
         IN  shorter \cup {Append(s, c) : s \in shorter, c \in S}

\* The text a token sequence stands for.
RECURSIVE Ser(_)
Ser(toks) == IF toks = <<>> THEN "" ELSE Head(toks) \o Ser(Tail(toks))

\* Index of the first element of s that is in S, Len(s) + 1 when none is.
IndexOfFirst(s, S) ==
    LET hits == {i \in 1..Len(s) : s[i] \in S}
    IN  IF hits = {} THEN Len(s) + 1
        ELSE CHOOSE i \in hits : \A j \in hits : i <= j

TakeUntil(s, S) == SubSeq(s, 1, IndexOfFirst(s, S) - 1)
DropUntil(s, S) == SubSeq(s, IndexOfFirst(s, S), Len(s))

RECURSIVE SkipSlashes(_)
SkipSlashes(s) == IF s # <<>> /\ Head(s) = "/" THEN SkipSlashes(Tail(s)) ELSE s

\* ------------------------------------------------ Url::parse (url crate)

\* Tokens that have the syntax of a scheme: a letter, then letters, digits,
\* '+', '-' or '.'.  A dotted quad and a number start with a digit.
Words == {"http", "https", "localhost", "graphql", "q", "f"}

\* Decimal value of the number tokens.
PortValue == [t \in {"8080", "80", "443", "99999"} |->
                CASE t = "8080" -> 8080
                  [] t = "80" -> 80
                  [] t = "443" -> 443
                  [] t = "99999" -> 99999]

MaxPort == 65535

DefaultPort(scheme) ==
    CASE scheme = "http" -> Some(80)
      [] scheme = "https" -> Some(443)
      [] OTHER -> None

ParseError(e) ==
    [error |-> e, scheme |-> "", host |-> None, port |-> None, path |-> "",
     query |-> None, fragment |-> None]

\* scheme ":" at the start of the input, or nothing.
parse_scheme(input) ==
    IF Len(input) >= 2 /\ input[1] \in Words /\ input[2] = ":"
    THEN Some(input[1]) ELSE None

\* host [":" [port]] ; a special scheme needs a host, the port is a number
\* of at most 16 bits and is dropped when it is the scheme's default.
parse_authority(scheme, special, authority, pathToks, rest) ==
    LET hostToks == TakeUntil(authority, {":"})
        afterHost == DropUntil(authority, {":"})
        portToks == IF afterHost = <<>> THEN <<>> ELSE Tail(afterHost)
        badPort == /\ portToks # <<>>
                   /\ \/ Len(portToks) > 1
                      \/ portToks[1] \notin DOMAIN PortValue
                      \/ PortValue[portToks[1]] > MaxPort
        port == IF portToks = <<>> THEN None
                ELSE IF Some(PortValue[portToks[1]]) = DefaultPort(scheme) THEN None
                ELSE Some(ToString(PortValue[portToks[1]]))
        query == IF rest # <<>> /\ rest[1] = "?"
                 THEN Some(Ser(TakeUntil(Tail(rest), {"#"}))) ELSE None
        afterQuery == DropUntil(rest, {"#"})
        fragment == IF afterQuery # <<>> THEN Some(Ser(Tail(afterQuery))) ELSE None
    IN  IF special /\ hostToks = <<>> THEN ParseError("EmptyHost")
        ELSE IF badPort THEN ParseError("InvalidPort")
        ELSE [error |-> "", scheme |-> scheme, host |-> Some(Ser(hostToks)),
              port |-> port,
              path |-> IF pathToks = <<>> /\ special THEN "/" ELSE Ser(pathToks),
              query |-> query, fragment |-> fragment]

\* After "scheme:" of http or https: any number of slashes, then the
\* authority up to '/', '?' or '#', the path up to '?' or '#', the rest.
after_double_slash(scheme, special, input) ==
    LET authority == TakeUntil(input, {"/", "?", "#"})
        after == DropUntil(input, {"/", "?", "#"})
    IN  parse_authority(scheme, special, authority,
                        TakeUntil(after, {"?", "#"}), DropUntil(after, {"?", "#"}))

\* After "scheme:" of any other scheme: "//" starts an authority, anything
\* else is a path (opaque when it does not start with '/').
parse_non_special(scheme, input) ==
    IF Len(input) >= 2 /\ input[1] = "/" /\ input[2] = "/"
    THEN after_double_slash(scheme, FALSE, SubSeq(input, 3, Len(input)))
    ELSE LET rest == DropUntil(input, {"?", "#"})
             afterQuery == DropUntil(rest, {"#"})
         IN  [error |-> "", scheme |-> scheme, host |-> None, port |-> None,
              path |-> Ser(TakeUntil(input, {"?", "#"})),
              query |-> IF rest # <<>> /\ rest[1] = "?"
                        THEN Some(Ser(TakeUntil(Tail(rest), {"#"}))) ELSE None,
              fragment |-> IF afterQuery # <<>> THEN Some(Ser(Tail(afterQuery))) ELSE None]

\* Url::parse with no base url: an input without a scheme is an error.
Url_parse(input) ==
    LET scheme == parse_scheme(input)
    IN  IF scheme = None THEN ParseError("RelativeUrlWithoutBase")
        ELSE LET rest == SubSeq(input, 3, Len(input))
             IN  IF scheme[1] \in {"http", "https"}
                 THEN after_double_slash(scheme[1], TRUE, SkipSlashes(rest))
                 ELSE parse_non_special(scheme[1], rest)

\* Url::set_path(""), on an http or https url: the path becomes "/"; the
\* query and the fragment stay.
set_path_empty(u) == [u EXCEPT !.path = "/"]

\* Url::to_string, on a url with a host.
to_string(u) ==
    u.scheme \o "://" \o u.host[1]
      \o (IF u.port = None THEN "" ELSE ":" \o u.port[1])
      \o u.path
      \o (IF u.query = None THEN "" ELSE "?" \o u.query[1])
      \o (IF u.fragment = None THEN "" ELSE "#" \o u.fragment[1])

\* ----------------------------------------------------------- Dgraph::new

HttpPrefix == <<"http", ":", "/", "/">>

new(u, ah) ==
    LET parsed_url == Url_parse(u)
    IN  IF parsed_url.error # ""
        THEN Err([kind |-> "Url", msg |-> parsed_url.error])
        ELSE IF ~(parsed_url.scheme = "http" \/ parsed_url.scheme = "https")
        THEN LET schemeful == Url_parse(HttpPrefix \o u)
             IN  IF schemeful.error # ""
                 THEN Err([kind |-> "Url",
                           msg |-> "your url is fucky wacky. sorry!: " \o schemeful.error])
                 ELSE Ok([base_url |-> to_string(set_path_empty(schemeful)),
                          auth_header |-> ah])
        ELSE Ok([base_url |-> to_string(set_path_empty(parsed_url)),
                 auth_header |-> ah])

\* ------------------------------------------------------ Transport wrapper

\* str::split_once(':'): the text before the first colon and the text after
\* it, or nothing when there is no colon.
rsplit_once(s) ==
    LET hits == {i \in 1..Len(s) : s[i] = ":"}
    IN  IF hits = {} THEN None
        ELSE LET i == CHOOSE i \in hits : \A j \in hits : j <= i
             IN  Some(<<SubSeq(s, 1, i - 1), SubSeq(s, i + 1, Len(s))>>)

split_once(s) ==
    LET i == IndexOfFirst(s, {":"})
    IN  IF i > Len(s) THEN None
        ELSE Some(<<SubSeq(s, 1, i - 1), SubSeq(s, i + 1, Len(s))>>)

\* ureq::Request::set: one more header on the request.
set(req, key, value) == [req EXCEPT !.headers = Append(@, <<key, value>>)]

add_auth_header(d, req) ==
    IF d.auth_header # None
    THEN LET kv == split_once(d.auth_header[1])
         IN  IF kv # None THEN set(req, kv[1][1], kv[1][2]) ELSE req
    ELSE req

post(d, endpoint) ==
    add_auth_header(d, [method |-> "POST", url |-> d.base_url \o endpoint,
                        headers |-> <<>>])

get(d, endpoint) ==
    add_auth_header(d, [method |-> "GET", url |-> d.base_url \o endpoint,
                        headers |-> <<>>])

\* send_json / send_string / call: the request goes out with its body.
send_with_retry(log, req, body) ==
    log \o << [method |-> req.method, url |-> req.url, headers |-> req.headers, body |-> body],
              [method |-> req.method, url |-> req.url, headers |-> req.headers, body |-> body] >>

send(log, req, body) ==
    Append(log, [method |-> req.method, url |-> req.url,
                 headers |-> req.headers, body |-> body])

\* ------------------------------------------------------------ JSON values

JAbsent == [t |-> "absent"]
JNull == [t |-> "null"]
JStr(s) == [t |-> "str", s |-> s]
JNum(n) == [t |-> "num", n |-> n]
JArr(a) == [t |-> "arr", a |-> a]
JObj(o) == [t |-> "obj", o |-> o]

\* serde_json::Value indexing by key: null for a missing key or a value that
\* is not an object.
Index(v, key) == IF v.t = "obj" /\ key \in DOMAIN v.o THEN v.o[key] ELSE JNull

as_str(v) == IF v.t = "str" THEN Some(v.s) ELSE None

unwrap_or_default(o) == IF o = None THEN <<>> ELSE o[1]

\* An Option field of a deserialized struct: absent and null are None.
DecodeOption(v) == IF v.t \in {"absent", "null"} THEN None ELSE Some(v)

RECURSIVE trim_start(_)
trim_start(s) == IF s # <<>> /\ Head(s) = " " THEN trim_start(Tail(s)) ELSE s

RECURSIVE trim_end(_)
trim_end(s) ==
    IF s # <<>> /\ s[Len(s)] = " " THEN trim_end(SubSeq(s, 1, Len(s) - 1)) ELSE s

trim(s) == trim_end(trim_start(s))

\* ------------------------------------------------------- GraphQL exchange

query_ignoring_errors(wire) ==
    IF wire.kind = "transport_error" THEN Err([kind |-> "Transport"])
    ELSE IF wire.kind = "bad_json" THEN Err([kind |-> "Decode"])
    ELSE Ok(DecodeOption(wire.data))

\* Lines 82-92 on a received response: transport and decoding errors come
\* first, then any errors value that decodes to Some is a failure.
query(wire) ==
    IF wire.kind = "transport_error" THEN Err([kind |-> "Transport"])
    ELSE IF wire.kind = "bad_json" THEN Err([kind |-> "Decode"])
    ELSE LET errors == DecodeOption(wire.errors)
         IN  IF errors # None
             THEN Err([kind |-> "GraphQL", messages |-> errors[1].a])
             ELSE Ok(DecodeOption(wire.data))

\* --------------------------------------------------------- Alter exchange

AlterSuccess == "{\"data\":{\"code\":\"Success\",\"message\":\"Done\"}}"

alter_matches_json(body) ==
    body \in {AlterSuccess,
              "{\"data\":{\"message\":\"Done\",\"code\":\"Success\"}}",
              "{\"data\": {\"code\": \"Success\", \"message\": \"Done\"}}"}

alter_matches(body) == body = AlterSuccess

\* Lines 96-104 on a received response.
alter(wire) ==
    IF wire.kind = "transport_error" THEN Err([kind |-> "Transport"])
    ELSE IF wire.kind = "bad_body" THEN Err([kind |-> "Decode"])
    ELSE IF ~alter_matches(wire.body)
         THEN Err([kind |-> "AlterMismatch", body |-> wire.body])
         ELSE Ok(<<>>)

\* ------------------------------------------------------------ subcommands

UpdateSchemaMutation ==
    "mutation updateGQLSchema($schema: String!) { updateGQLSchema(input: { set: { schema: $schema } }) { gqlSchema { id } } }"

GetSchemaQuery == "query getGQLSchema { getGQLSchema { schema } }"

DropAllPayload == "{\"drop_all\": true}"

DropDataPayload_pasted == "{\"drop_all\": true}"

DropDataPayload == "{\"drop_op\": \"DATA\"}"

Line(text) == [text |-> text]
SchemaLine(s) == [schema |-> s]

\* GetSchema::exec, lines 151-163: what is printed for a decoded data.
GetSchemaOutput(data) ==
    IF data # None
    THEN LET schema == trim(unwrap_or_default(
                          as_str(Index(Index(data[1], "getGQLSchema"), "schema"))))
         IN  IF schema = <<>> THEN <<Line("no schema")>> ELSE <<SchemaLine(schema)>>
    ELSE <<>>

\* humantime::format_duration of a whole number of seconds.
Plural(n, unit) == ToString(n) \o unit \o (IF n > 1 THEN "s" ELSE "")

RECURSIVE Join(_)
Join(parts) ==
    IF parts = <<>> THEN ""
    ELSE IF Len(parts) = 1 THEN parts[1]
    ELSE parts[1] \o " " \o Join(Tail(parts))

format_duration(secs) ==
    LET years == secs \div 31557600
        ydays == secs % 31557600
        months == ydays \div 2630016
        mdays == ydays % 2630016
        days == mdays \div 86400
        day_secs == mdays % 86400
        hours == day_secs \div 3600
        minutes == (day_secs % 3600) \div 60
        seconds == day_secs % 60
        all == << <<years, Plural(years, "year")>>, <<months, Plural(months, "month")>>,
                  <<days, Plural(days, "day")>>, <<hours, ToString(hours) \o "h">>,
                  <<minutes, ToString(minutes) \o "m">>, <<seconds, ToString(seconds) \o "s">> >>
        shown == SelectSeq(all, LAMBDA p : p[1] > 0)
    IN  IF secs = 0 THEN "0s" ELSE Join([i \in 1..Len(shown) |-> shown[i][2]])

\* Vec<HealthResponse> from the received array: every element needs
\* address, status and uptime; other fields are ignored.
DecodeHealth(wire) ==
    IF wire.kind = "transport_error" THEN Err([kind |-> "Transport"])
    ELSE IF wire.kind = "bad_json" THEN Err([kind |-> "Decode"])
    ELSE IF \E i \in 1..Len(wire.nodes) :
                ~({"address", "status", "uptime"} \subseteq DOMAIN wire.nodes[i])
         THEN Err([kind |-> "Decode"])
         ELSE Ok(wire.nodes)

\* GetHealth::exec, lines 215-222: one line per node, in order.
GetHealthOutput(nodes) ==
    [i \in 1..Len(nodes) |->
        Line(nodes[i].address \o " is " \o nodes[i].status \o ", uptime: "
               \o format_duration(nodes[i].uptime))]

\* ------------------------------------------------------------ environment

AuthChars == {"k", ":", "v"}
AuthValues == {None} \cup {Some(s) : s \in SeqsUpTo(AuthChars, MaxAuthLen)}

Subcommands == {"update-schema", "get-schema", "drop-all", "drop-data", "get-health"}

\* --url values of the process runs.
Urls ==
    { <<"localhost", ":", "8080">>,
      <<"https", ":", "/", "/", "localhost", "/", "graphql">>,
      <<"localhost">>,
      <<"localhost", ":", "99999">> }

UrlHosts == {"localhost", "127.0.0.1"}

\* --url values for Dgraph::new alone: [scheme:][//]host[:port][/path][?q][#f]
UrlInputs ==
    { scheme \o slashes \o <<host>> \o port \o path \o q \o f :
        scheme \in {<<>>, <<"http", ":">>, <<"https", ":">>},
        slashes \in {<<>>, <<"/", "/">>},
        host \in UrlHosts,
        port \in {<<>>, <<":", "8080">>, <<":", "80">>, <<":", "443">>, <<":", "99999">>},
        path \in {<<>>, <<"/", "graphql">>},
        q \in {<<>>, <<"?", "q">>},
        f \in {<<>>, <<"#", "f">>} }

FileResults == {[state |-> "error"], [state |-> "read", text |-> "type T { id: ID! }"]}

ErrorMessages == {"bad", "worse"}

ErrorsValues ==
    {JAbsent, JNull}
      \cup {JArr([i \in 1..Len(m) |-> [message |-> m[i]]]) : m \in SeqsUpTo(ErrorMessages, MaxErrors)}

SchemaTexts == SeqsUpTo({" ", "t"}, MaxSchemaLen)

DataValues ==
    {JAbsent, JNull, JObj("x" :> JNum(1)), JObj("getGQLSchema" :> JNull),
     JObj("getGQLSchema" :> JObj("schema" :> JNull)),
     JObj("getGQLSchema" :> JObj("schema" :> JNum(1)))}
      \cup {JObj("getGQLSchema" :> JObj("schema" :> JStr(s))) : s \in SchemaTexts}

GqlWire ==
    {[kind |-> "transport_error"], [kind |-> "bad_json"]}
      \cup {[kind |-> "gql", data |-> d, errors |-> e] : d \in DataValues, e \in ErrorsValues}

AlterBodies ==
    {AlterSuccess,
     "{\"data\":{\"message\":\"Done\",\"code\":\"Success\"}}",
     "{\"data\": {\"code\": \"Success\", \"message\": \"Done\"}}",
     "{\"code\":\"Success\",\"message\":\"Done\"}",
     "{\"errors\":[{\"message\":\"No Auth Token found.\"}]}",
     ""}

AlterWire ==
    {[kind |-> "transport_error"], [kind |-> "bad_body"]}
      \cup {[kind |-> "text", body |-> b] : b \in AlterBodies}

HealthItems ==
    {[address |-> "n1:8080", status |-> "healthy", uptime |-> 3661],
     [address |-> "n2:8080", status |-> "unhealthy", uptime |-> 0, version |-> "v21"],
     [address |-> "n3:8080"]}

HealthWire ==
    {[kind |-> "transport_error"], [kind |-> "bad_json"]}
      \cup {[kind |-> "health", nodes |-> n] : n \in SeqsUpTo(HealthItems, MaxNodes)}

\* ------------------------------------------------------------ the process

InitWith(urls, auths) ==
    /\ pc = "main"
    /\ url \in urls
    /\ auth \in auths
    /\ subcommand \in Subcommands
    /\ dgraph = [base_url |-> "", auth_header |-> None]
    /\ requests = <<>>
    /\ file = [state |-> "unread"]
    /\ resp = [kind |-> "none"]
    /\ stdout = <<>>
    /\ err = NoError
    /\ exit_code = -1

Init == InitWith(Urls, AuthValues)

\* main returns: Ok is exit status 0, Err is printed and is exit status 1.
Return(result) ==
    /\ pc' = "done"
    /\ err' = IF result.ok THEN NoError ELSE result.e
    /\ exit_code' = IF result.ok THEN 0 ELSE 1

\* main, lines 266-267.
Main_new ==
    /\ pc = "main"
    /\ LET d == new(url, auth)
       IN  IF d.ok
           THEN /\ dgraph' = d.v
                /\ pc' = "exec"
                /\ UNCHANGED <<err, exit_code>>
           ELSE /\ Return(d)
                /\ UNCHANGED dgraph
    /\ UNCHANGED <<url, auth, subcommand, requests, file, resp, stdout>>

UpdateSchema_exec ==
    /\ pc = "exec"
    /\ subcommand = "update-schema"
    /\ \E f \in FileResults :
         /\ file' = f
         /\ IF f.state = "error"
            THEN /\ Return(Err([kind |-> "FileRead"]))
                 /\ UNCHANGED <<requests, resp, stdout>>
            ELSE \E wire \in GqlWire :
                   /\ requests' = send(requests, post(dgraph, "admin"),
                                       [json |-> [query |-> UpdateSchemaMutation,
                                                  variables |-> [schema |-> f.text]]])
                   /\ resp' = wire
                   /\ LET r == query(wire)
                      IN  /\ stdout' = IF r.ok THEN Append(stdout, Line("success")) ELSE stdout
                          /\ Return(IF r.ok THEN Ok(<<>>) ELSE r)
    /\ UNCHANGED <<url, auth, subcommand, dgraph>>

GetSchema_exec ==
    /\ pc = "exec"
    /\ subcommand = "get-schema"
    /\ \E wire \in GqlWire :
         /\ requests' = send(requests, post(dgraph, "admin"),
                             [json |-> [query |-> GetSchemaQuery, variables |-> JNull]])
         /\ resp' = wire
         /\ LET r == query(wire)
            IN  /\ stdout' = IF r.ok THEN stdout \o GetSchemaOutput(r.v) ELSE stdout
                /\ Return(IF r.ok THEN Ok(<<>>) ELSE r)
    /\ UNCHANGED <<url, auth, subcommand, dgraph, file>>

AlterExec(payload) ==
    \E wire \in AlterWire :
      /\ requests' = send(requests, post(dgraph, "alter"), [text |-> payload])
      /\ resp' = wire
      /\ LET r == alter(wire)
         IN  /\ stdout' = IF r.ok THEN Append(stdout, Line("success")) ELSE stdout
             /\ Return(r)

DropAll_exec ==
    /\ pc = "exec"
    /\ subcommand = "drop-all"
    /\ AlterExec(DropAllPayload)
    /\ UNCHANGED <<url, auth, subcommand, dgraph, file>>

DropData_exec ==
    /\ pc = "exec"
    /\ subcommand = "drop-data"
    /\ AlterExec(DropDataPayload)
    /\ UNCHANGED <<url, auth, subcommand, dgraph, file>>

GetHealth_exec ==
    /\ pc = "exec"
    /\ subcommand = "get-health"
    /\ \E wire \in HealthWire :
         /\ requests' = send(requests, get(dgraph, "health"), [empty |-> TRUE])
         /\ resp' = wire
         /\ LET r == DecodeHealth(wire)
            IN  /\ stdout' = IF r.ok THEN stdout \o GetHealthOutput(r.v) ELSE stdout
                /\ Return(IF r.ok THEN Ok(<<>>) ELSE r)
    /\ UNCHANGED <<url, auth, subcommand, dgraph, file>>

Next ==
    \/ Main_new
    \/ UpdateSchema_exec
    \/ GetSchema_exec
    \/ DropAll_exec
    \/ DropData_exec
    \/ GetHealth_exec

Spec == Init /\ [][Next]_vars

\* Dgraph::new alone, over every url of UrlInputs.
InitUrl == InitWith(UrlInputs, {None, Some(<<"k", ":", "v">>)}) /\ subcommand = "get-health"

SpecUrl == InitUrl /\ [][Main_new]_vars

TypeOK ==
    /\ pc \in {"main", "exec", "done"}
    /\ exit_code \in {-1, 0, 1}
    /\ Len(requests) \in 0..2

\* ------------------------------------------------------------ properties

\* C1: a GraphQL exchange fails with a GraphQL error if and only if the
\* decoded response has an errors field that is present and non-empty; with
\* errors absent, null or an empty array it succeeds.
C1_QueryFailsIffErrorsNonEmpty ==
    (pc = "done" /\ resp.kind = "gql") =>
        LET nonEmpty == resp.errors.t = "arr" /\ resp.errors.a # <<>>
        IN  /\ err.kind = "GraphQL" <=> nonEmpty
            /\ err = NoError <=> ~nonEmpty

\* C2: Dgraph::new retries with http:// prepended whenever the first parse
\* fails or gives a scheme other than http and https, and fails only when
\* that retry fails too.
C2_RetryOnFirstParseFailure ==
    pc # "main" =>
        LET first == Url_parse(url)
            retry == Url_parse(<<"http", ":", "/", "/">> \o url)
        IN  (first.error # "" \/ first.scheme \notin {"http", "https"}) =>
                (err.kind = "Url" <=> retry.error # "")

\* C3: for every url host:port without a scheme (taken here with a port
\* other than 80, the http default), Dgraph::new succeeds with the base url
\* http://host:port/.
C3_HostPortGetsHttp ==
    ( /\ pc # "main"
      /\ Len(url) = 3
      /\ url[1] \in UrlHosts
      /\ url[2] = ":"
      /\ url[3] \in {"8080", "443"} ) =>
        /\ err = NoError
        /\ dgraph.base_url = "http://" \o url[1] \o ":" \o url[3] \o "/"

\* C4: for every url that Dgraph::new accepts, base_url is the scheme of the
\* url (http when it has none), its host, its port when one was given
\* (taken here up to the scheme's default port, which may be left out), and
\* "/": no path, no query, no fragment.
C4_BaseUrlIsSchemeAndAuthority ==
    (pc = "exec") =>
        LET scheme == IF Len(url) >= 2 /\ url[1] \in {"http", "https"} /\ url[2] = ":"
                      THEN url[1] ELSE "http"
            h == IndexOfFirst(url, UrlHosts)
            port == IF h + 2 <= Len(url) /\ url[h + 1] = ":" THEN ":" \o url[h + 2] ELSE ""
            default == IF scheme = "http" THEN ":80" ELSE ":443"
        IN  \/ dgraph.base_url = scheme \o "://" \o url[h] \o port \o "/"
            \/ port = default /\ dgraph.base_url = scheme \o "://" \o url[h] \o "/"

\* C5: alter succeeds exactly when the response body equals the literal
\* {"data":{"code":"Success","message":"Done"}}; with any other body it
\* fails and the error carries that body.
C5_AlterExactMatch ==
    (pc = "done" /\ subcommand \in {"drop-all", "drop-data"} /\ resp.kind = "text") =>
        IF resp.body = "{\"data\":{\"code\":\"Success\",\"message\":\"Done\"}}"
        THEN err = NoError /\ exit_code = 0
        ELSE err = [kind |-> "AlterMismatch", body |-> resp.body] /\ exit_code = 1

\* An alter response with the two keys in the other order was rejected.
C5_Witness ==
    /\ pc = "done"
    /\ subcommand = "drop-all"
    /\ resp = [kind |-> "text", body |-> "{\"data\":{\"message\":\"Done\",\"code\":\"Success\"}}"]
    /\ err.kind = "AlterMismatch"

\* C6: every request sent carries exactly one added header, the text of
\* --auth before its first colon and the text after it, when --auth is given
\* and has a colon; otherwise it carries no added header.
C6_AuthHeaderSplitOnFirstColon ==
    \A n \in 1..Len(requests) :
        IF auth # None /\ \E i \in 1..Len(auth[1]) : auth[1][i] = ":"
        THEN \E i \in 1..Len(auth[1]) :
                /\ auth[1][i] = ":"
                /\ \A j \in 1..(i - 1) : auth[1][j] # ":"
                /\ requests[n].headers =
                      << <<SubSeq(auth[1], 1, i - 1), SubSeq(auth[1], i + 1, Len(auth[1]))>> >>
        ELSE requests[n].headers = <<>>

\* A request went out for an auth value with two colons.
C6_Witness ==
    /\ Len(requests) = 1
    /\ auth = Some(<<"k", ":", ":">>)
    /\ requests[1].headers = << << <<"k">>, <<":">> >> >>

\* C7: when the get-schema exchange succeeds exactly one line is printed:
\* the trimmed schema when data.getGQLSchema.schema is a string that is not
\* empty after trimming, "no schema" in every other case, data absent or
\* null included.
C7_GetSchemaPrintsOneResult ==
    (pc = "done" /\ subcommand = "get-schema" /\ exit_code = 0) =>
        LET getGQLSchema == IF resp.data.t = "obj" /\ "getGQLSchema" \in DOMAIN resp.data.o
                            THEN resp.data.o["getGQLSchema"] ELSE JNull
            schema == IF getGQLSchema.t = "obj" /\ "schema" \in DOMAIN getGQLSchema.o
                      THEN getGQLSchema.o["schema"] ELSE JNull
        IN  IF schema.t = "str" /\ \E i \in 1..Len(schema.s) : schema.s[i] # " "
            THEN stdout = <<SchemaLine(trim(schema.s))>>
            ELSE stdout = <<Line("no schema")>>

C9_AtMostOneRequest ==
    /\ Len(requests) <= 1
    /\ pc \in {"main", "exec"} => requests = <<>>
    /\ pc = "done" =>
          /\ Len(requests) = IF err.kind \in {"Url", "FileRead"} THEN 0 ELSE 1
          /\ ~ENABLED Next

\* A run whose only request met a transport failure has ended.
C9_Witness ==
    /\ pc = "done"
    /\ resp.kind = "transport_error"
    /\ Len(requests) = 1
    /\ exit_code = 1

\* C10: the request sent is fixed by the subcommand: drop-all and drop-data
\* POST their own payload to alter, get-schema and update-schema POST to
\* admin, get-health GETs health.
C10_RequestFixedBySubcommand ==
    \A n \in 1..Len(requests) :
        LET r == requests[n]
        IN  CASE subcommand = "drop-all" ->
                   /\ r.method = "POST"
                   /\ r.url = dgraph.base_url \o "alter"
                   /\ r.body = [text |-> "{\"drop_all\": true}"]
              [] subcommand = "drop-data" ->
                   /\ r.method = "POST"
                   /\ r.url = dgraph.base_url \o "alter"
                   /\ r.body = [text |-> "{\"drop_op\": \"DATA\"}"]
              [] subcommand \in {"get-schema", "update-schema"} ->
                   /\ r.method = "POST"
                   /\ r.url = dgraph.base_url \o "admin"
                   /\ "json" \in DOMAIN r.body
              [] subcommand = "get-health" ->
                   /\ r.method = "GET"
                   /\ r.url = dgraph.base_url \o "health"
                   /\ r.body = [empty |-> TRUE]

\* drop-data sent its request.
C10_Witness ==
    /\ subcommand = "drop-data"
    /\ Len(requests) = 1
    /\ requests[1].body = [text |-> "{\"drop_op\": \"DATA\"}"]
    /\ requests[1].url = "http://localhost:8080/alter"

====
